---- MODULE Spec2Model ----
(***************************************************************************)
(* The DLOB (decentralized limit order book) of the order filler:          *)
(* src/src/dlob/DLOB.ts.  The book keeps, per market, eight node lists and *)
(* a set of open order ids; insert / remove / update / trigger change it,  *)
(* getAsks / getBids merge the lists with the vAMM quote, and              *)
(* findCrossingNodesToFill / findMarketNodesToFill / findNodesToTrigger    *)
(* read it.  NodeList and DLOBNode (imported by DLOB.ts) are modelled from *)
(* the specification's sections 3, 4.1 and 4.2.                            *)
(***************************************************************************)
EXTENDS Integers, Sequences, FiniteSets, TLC

VARIABLES
    orderLists,   \* DLOB.orderLists: market index -> the market's eight lists
    openOrders,   \* DLOB.openOrders: set of order ids
    call          \* the last call made on the book, its arguments and outcome

vars == <<orderLists, openOrders, call>>

-----------------------------------------------------------------------------
(* Bounds of the model                                                     *)

\* order ids of the book scenarios, 1..MaxOrderId
MaxOrderId == 3
\* order ids of the merge scenarios, 1..MaxMergeId
MaxMergeId == 8
\* order ids of the matching scenarios, 1..MaxMatchId
MaxMatchId == 8
\* order ids of the trigger scenarios, 1..MaxTriggerId
MaxTriggerId == 6
\* resting asks of the fill-cap scenario, ids 1..MaxCapAsks
MaxCapAsks == 11

-----------------------------------------------------------------------------
(* Values of @drift-labs/sdk used by the book                              *)

\* An anchor enum value, { <t>: {} }: an object whose only key is the variant.
Variant(t) == [v \in {t} |-> TRUE]

\* isVariant(object, type): object.hasOwnProperty(type)
IsVariant(object, type) == type \in DOMAIN object

\* isOneOfVariant(object, types): some type of types is a key of object
IsOneOfVariant(object, types) == \E t \in types : t \in DOMAIN object

ZERO == 0

\* isAuctionComplete(order, slot)
IsAuctionComplete(order, slot) == slot >= order.ts + order.auctionDuration

\* An Order account as the book reads it.
MkOrder(id, market, type, status, dir, cond, trig, px, off, tpx, ts, po, dur, sp, ep) ==
    [ orderId           |-> id,
      marketIndex       |-> market,
      orderType         |-> Variant(type),
      status            |-> Variant(status),
      direction         |-> Variant(dir),
      triggerCondition  |-> Variant(cond),
      triggered         |-> trig,
      price             |-> px,
      oraclePriceOffset |-> off,
      triggerPrice      |-> tpx,
      ts                |-> ts,
      postOnly          |-> po,
      auctionDuration   |-> dur,
      auctionStartPrice |-> sp,
      auctionEndPrice   |-> ep ]

-----------------------------------------------------------------------------
(* DLOBNode and NodeList                                                   *)

\* getOrderId(order, userAccount): the fingerprint of (userAccount, orderId)
GetOrderId(order, userAccount) == <<userAccount, order.orderId>>

\* createNode(nodeType, order, userAccount)
CreateNode(nodeType, order, userAccount) ==
    [ type |-> nodeType, order |-> order, userAccount |-> userAccount ]

\* The one node getVammNodeGenerator(price) yields.
VammNode(price) == [ type |-> "vamm", price |-> price ]

\* getVammNodeGenerator(price): a single-element stream
GetVammNodeGenerator(price) == << VammNode(price) >>

IsVammNode(node) == node.type = "vamm"

\* Integer division truncating towards zero, as BN.div does.
TruncDiv(a, b) == IF a >= 0 THEN a \div b ELSE -((-a) \div b)

\* MarketNode.getPrice: the auction's linear curve, clamped to its end points.
AuctionPrice(order, slot) ==
    IF IsAuctionComplete(order, slot) THEN order.auctionEndPrice
    ELSE IF slot <= order.ts THEN order.auctionStartPrice
    ELSE order.auctionStartPrice
           + TruncDiv((order.auctionEndPrice - order.auctionStartPrice)
                          * (slot - order.ts),
                      order.auctionDuration)

\* DLOBNode.getPrice(oraclePriceData, slot)
GetPrice(node, oraclePrice, slot) ==
    CASE node.type = "vamm"          -> node.price
      [] node.type = "limit"         -> node.order.price
      [] node.type = "floatingLimit" -> oraclePrice + node.order.oraclePriceOffset
      [] node.type = "market"        -> AuctionPrice(node.order, slot)
      [] node.type = "trigger"       -> node.order.triggerPrice

\* The key a list of the given class is sorted by.
SortKey(nodeType, order) ==
    CASE nodeType = "limit"         -> order.price
      [] nodeType = "floatingLimit" -> order.oraclePriceOffset
      [] nodeType = "market"        -> order.ts
      [] nodeType = "trigger"       -> order.triggerPrice

\* Whether a new order goes before an existing node of the list: a better
\* key under the list's direction, or the same key and an earlier ts.
Precedes(nodeType, sortDirection, order, node) ==
    LET k == SortKey(nodeType, order)
        n == SortKey(nodeType, node.order)
    IN  \/ (sortDirection = "asc" /\ k < n)
        \/ (sortDirection = "desc" /\ k > n)
        \/ (k = n /\ order.ts < node.order.ts)

\* NodeList.has(order, userAccount)
NodeListHas(list, order, userAccount) ==
    \E i \in 1..Len(list) :
        GetOrderId(list[i].order, list[i].userAccount) = GetOrderId(order, userAccount)

\* Index of the node of the given identity (0 when absent).
NodeIndex(list, order, userAccount) ==
    IF NodeListHas(list, order, userAccount)
    THEN CHOOSE i \in 1..Len(list) :
            /\ GetOrderId(list[i].order, list[i].userAccount) = GetOrderId(order, userAccount)
            /\ \A j \in 1..(i-1) :
                 GetOrderId(list[j].order, list[j].userAccount) # GetOrderId(order, userAccount)
    ELSE 0

\* NodeList.insert(order, userAccount): a new node at its place in the sort
\* order, after the nodes of the same key and ts already there; an order the
\* list already holds is rejected.
NodeListInsert(list, nodeType, sortDirection, order, userAccount) ==
    IF NodeListHas(list, order, userAccount) THEN list
    ELSE LET before == { i \in 1..Len(list) :
                           Precedes(nodeType, sortDirection, order, list[i]) }
             pos == IF before = {} THEN Len(list) + 1
                    ELSE CHOOSE i \in before : \A j \in before : i <= j
         IN  SubSeq(list, 1, pos - 1)
               \o << CreateNode(nodeType, order, userAccount) >>
               \o SubSeq(list, pos, Len(list))

\* NodeList.remove(order, userAccount): by identity; nothing when absent.
NodeListRemove(list, order, userAccount) ==
    LET i == NodeIndex(list, order, userAccount)
    IN  IF i = 0 THEN list
        ELSE SubSeq(list, 1, i - 1) \o SubSeq(list, i + 1, Len(list))

\* NodeList.update(order, userAccount): the node keeps its place and gets
\* the new order; nothing when absent.
NodeListUpdate(list, order, userAccount) ==
    LET i == NodeIndex(list, order, userAccount)
    IN  IF i = 0 THEN list
        ELSE [list EXCEPT ![i].order = order]

\* NodeList.getGenerator(): the nodes, first to last.
GetGenerator(list) == list

-----------------------------------------------------------------------------
(* DLOB: construction and routing                                          *)

\* The market indexes given to the constructor.
MarketIndexes == {0}

\* The market indexes callers may pass: the constructor's and one it was not given.
AllMarkets == {0, 1}

\* The eight lists of one market as the constructor makes them: all empty.
EmptyMarketNodeLists ==
    [ limit         |-> [ask |-> <<>>, bid |-> <<>>],
      floatingLimit |-> [ask |-> <<>>, bid |-> <<>>],
      market        |-> [ask |-> <<>>, bid |-> <<>>],
      trigger       |-> [above |-> <<>>, below |-> <<>>] ]

\* The sort direction the constructor gives each list.
SortDirection(type, subType) ==
    CASE type = "market"                         -> "asc"
      [] type = "trigger" /\ subType = "above"   -> "asc"
      [] type = "trigger" /\ subType = "below"   -> "desc"
      [] subType = "ask"                         -> "asc"
      [] subType = "bid"                         -> "desc"

Types == {"limit", "floatingLimit", "market", "trigger"}
SubTypes(type) == IF type = "trigger" THEN {"above", "below"} ELSE {"ask", "bid"}

IsInactiveTriggerOrder(order) ==
    /\ IsOneOfVariant(order.orderType, {"triggerMarket", "triggerLimit"})
    /\ ~order.triggered

\* getListForOrder: the class of the list
ListType(order) ==
    IF IsInactiveTriggerOrder(order) THEN "trigger"
    ELSE IF IsOneOfVariant(order.orderType, {"market", "triggerMarket"}) THEN "market"
    ELSE IF order.oraclePriceOffset > ZERO THEN "floatingLimit"
    ELSE "limit"

\* getListForOrder: the side of the list
ListSubType(order) ==
    IF IsInactiveTriggerOrder(order)
    THEN (IF IsVariant(order.triggerCondition, "above") THEN "above" ELSE "below")
    ELSE (IF IsVariant(order.direction, "long") THEN "bid" ELSE "ask")

\* getListForOrder fails (orderLists.get(...) is undefined) for a market the
\* constructor was not given.
UnknownMarketOf(lists, order) == order.marketIndex \notin DOMAIN lists

\* getListForOrder(order): the place of the list in orderLists
GetListForOrder(order) ==
    [ market |-> order.marketIndex, type |-> ListType(order), subType |-> ListSubType(order) ]

\* The list at a place.
ListAt(lists, place) == lists[place.market][place.type][place.subType]

\* orderLists with the list at a place replaced.
WithList(lists, place, list) ==
    [lists EXCEPT ![place.market][place.type][place.subType] = list]

\* getOpenOrderId(order, userAccount)
GetOpenOrderId(order, userAccount) == GetOrderId(order, userAccount)

-----------------------------------------------------------------------------
(* DLOB: the mutators                                                      *)

MutatorCall(op, order, userAccount, threw) ==
    [ op |-> op, order |-> order, userAccount |-> userAccount, threw |-> threw ]

\* insert(order, userAccount)
Insert(order, userAccount) ==
    IF IsVariant(order, "init")
    THEN /\ UNCHANGED <<orderLists, openOrders>>
         /\ call' = MutatorCall("insert", order, userAccount, FALSE)
    ELSE /\ openOrders' = IF IsVariant(order.status, "open")
                          THEN openOrders \cup {GetOpenOrderId(order, userAccount)}
                          ELSE openOrders
         /\ IF UnknownMarketOf(orderLists, order)
            THEN /\ UNCHANGED orderLists
                 /\ call' = MutatorCall("insert", order, userAccount, TRUE)
            ELSE LET place == GetListForOrder(order)
                 IN  /\ orderLists' =
                           WithList(orderLists, place,
                               NodeListInsert(ListAt(orderLists, place), place.type,
                                              SortDirection(place.type, place.subType),
                                              order, userAccount))
                     /\ call' = MutatorCall("insert", order, userAccount, FALSE)

\* remove(order, userAccount)
Remove(order, userAccount) ==
    /\ openOrders' = openOrders \ {GetOpenOrderId(order, userAccount)}
    /\ IF UnknownMarketOf(orderLists, order)
       THEN /\ UNCHANGED orderLists
            /\ call' = MutatorCall("remove", order, userAccount, TRUE)
       ELSE LET place == GetListForOrder(order)
            IN  /\ orderLists' =
                      WithList(orderLists, place,
                          NodeListRemove(ListAt(orderLists, place), order, userAccount))
                /\ call' = MutatorCall("remove", order, userAccount, FALSE)

\* update(order, userAccount)
Update(order, userAccount) ==
    /\ UNCHANGED openOrders
    /\ IF UnknownMarketOf(orderLists, order)
       THEN /\ UNCHANGED orderLists
            /\ call' = MutatorCall("update", order, userAccount, TRUE)
       ELSE LET place == GetListForOrder(order)
            IN  /\ orderLists' =
                      WithList(orderLists, place,
                          NodeListUpdate(ListAt(orderLists, place), order, userAccount))
                /\ call' = MutatorCall("update", order, userAccount, FALSE)

\* A variant of trigger that inserts the order into the list getListForOrder
\* selects without removing it from its trigger list; C18 does not hold of it.
TriggerWithoutRemove(order, userAccount) ==
    /\ UNCHANGED openOrders
    /\ IF UnknownMarketOf(orderLists, order)
       THEN /\ UNCHANGED orderLists
            /\ call' = MutatorCall("trigger", order, userAccount, TRUE)
       ELSE LET place == GetListForOrder(order)
            IN  /\ orderLists' =
                      WithList(orderLists, place,
                          NodeListInsert(ListAt(orderLists, place), place.type,
                                         SortDirection(place.type, place.subType),
                                         order, userAccount))
                /\ call' = MutatorCall("trigger", order, userAccount, FALSE)

\* trigger(order, userAccount)
Trigger(order, userAccount) ==
    /\ UNCHANGED openOrders
    /\ IF UnknownMarketOf(orderLists, order)
       THEN /\ UNCHANGED orderLists
            /\ call' = MutatorCall("trigger", order, userAccount, TRUE)
       ELSE LET triggerPlace ==
                    [ market  |-> order.marketIndex,
                      type    |-> "trigger",
                      subType |-> IF IsVariant(order.triggerCondition, "above")
                                  THEN "above" ELSE "below" ]
                removed == WithList(orderLists, triggerPlace,
                               NodeListRemove(ListAt(orderLists, triggerPlace),
                                              order, userAccount))
                place == GetListForOrder(order)
            IN  /\ orderLists' =
                      WithList(removed, place,
                          NodeListInsert(ListAt(removed, place), place.type,
                                         SortDirection(place.type, place.subType),
                                         order, userAccount))
                /\ call' = MutatorCall("trigger", order, userAccount, FALSE)

-----------------------------------------------------------------------------
(* DLOB: the merged ask and bid streams                                    *)

\* The reducer of getAsks: which of two generators stays the best one.
AskReducer(gens, best, current, oraclePrice, slot) ==
    IF gens[current] = <<>> THEN best
    ELSE IF gens[best] = <<>> THEN current
    ELSE IF GetPrice(Head(gens[best]), oraclePrice, slot)
              < GetPrice(Head(gens[current]), oraclePrice, slot)
         THEN best
         ELSE current

\* The reducer of getBids.
BidReducer(gens, best, current, oraclePrice, slot) ==
    IF gens[current] = <<>> THEN best
    ELSE IF gens[best] = <<>> THEN current
    ELSE IF GetPrice(Head(gens[best]), oraclePrice, slot)
              > GetPrice(Head(gens[current]), oraclePrice, slot)
         THEN best
         ELSE current

\* generators.reduce(reducer) of getAsks / getBids: no initial value, so the
\* first generator is the first best one and the others follow in order.
RECURSIVE ReduceGenerators(_, _, _, _, _, _)
ReduceGenerators(side, gens, best, current, oraclePrice, slot) ==
    IF current > Len(gens) THEN best
    ELSE ReduceGenerators(side, gens,
             IF side = "ask"
             THEN AskReducer(gens, best, current, oraclePrice, slot)
             ELSE BidReducer(gens, best, current, oraclePrice, slot),
             current + 1, oraclePrice, slot)

\* The loop of getAsks / getBids: yield the best generator's node and advance
\* that generator, until every generator is exhausted.
RECURSIVE MergeGenerators(_, _, _, _)
MergeGenerators(side, gens, oraclePrice, slot) ==
    LET best == ReduceGenerators(side, gens, 1, 2, oraclePrice, slot)
    IN  IF gens[best] = <<>> THEN <<>>
        ELSE << Head(gens[best]) >>
               \o MergeGenerators(side, [gens EXCEPT ![best] = Tail(@)],
                                  oraclePrice, slot)

\* A variant of getAsks that leaves the vAMM generator out of the merge; C10
\* does not hold of it.
GetAsksWithoutVamm(lists, marketIndex, vAsk, slot, oraclePrice) ==
    LET nodeLists == lists[marketIndex]
    IN  MergeGenerators("ask",
            << GetGenerator(nodeLists.limit.ask),
               GetGenerator(nodeLists.floatingLimit.ask),
               GetGenerator(nodeLists.market.ask) >>,
            oraclePrice, slot)

\* getAsks(marketIndex, vAsk, slot, oraclePriceData): all it yields
GetAsks(lists, marketIndex, vAsk, slot, oraclePrice) ==
    LET nodeLists == lists[marketIndex]
    IN  MergeGenerators("ask",
            << GetGenerator(nodeLists.limit.ask),
               GetGenerator(nodeLists.floatingLimit.ask),
               GetGenerator(nodeLists.market.ask),
               GetVammNodeGenerator(vAsk) >>,
            oraclePrice, slot)

\* getBids(marketIndex, vBid, slot, oraclePriceData): all it yields
GetBids(lists, marketIndex, vBid, slot, oraclePrice) ==
    LET nodeLists == lists[marketIndex]
    IN  MergeGenerators("bid",
            << GetGenerator(nodeLists.limit.bid),
               GetGenerator(nodeLists.floatingLimit.bid),
               GetGenerator(nodeLists.market.bid),
               GetVammNodeGenerator(vBid) >>,
            oraclePrice, slot)

\* getMarketBids / getMarketAsks
GetMarketBids(lists, marketIndex) == GetGenerator(lists[marketIndex].market.bid)
GetMarketAsks(lists, marketIndex) == GetGenerator(lists[marketIndex].market.ask)

-----------------------------------------------------------------------------
(* DLOB: matching                                                          *)

\* The cap on the fills of one findCrossingNodesToFill call.
MaxFills == 10

\* findCrossingOrders(askNode, bidNode, oraclePriceData, slot): crossingNodes
\* is <<>> when none is returned, crossingSide is "none" when none is.
FindCrossingOrders(askNode, bidNode, oraclePrice, slot) ==
    LET bidPrice == GetPrice(bidNode, oraclePrice, slot)
        askPrice == GetPrice(askNode, oraclePrice, slot)
    IN  IF bidPrice < askPrice
        THEN [crossingNodes |-> <<>>, crossingSide |-> "none"]
        ELSE IF IsVammNode(askNode)
        THEN [crossingNodes |-> <<>>, crossingSide |-> "bid"]
        ELSE IF IsVammNode(bidNode)
        THEN [crossingNodes |-> <<>>, crossingSide |-> "ask"]
        ELSE LET bidOrder == bidNode.order
                 askOrder == askNode.order
             IN  IF bidOrder.postOnly /\ askOrder.postOnly
                 THEN [crossingNodes |-> <<>>,
                       crossingSide  |-> IF bidOrder.ts < askOrder.ts THEN "bid" ELSE "ask"]
                 ELSE IF bidOrder.postOnly
                 THEN [crossingNodes |-> << [node |-> askNode, makerNode |-> bidNode] >>,
                       crossingSide  |-> "ask"]
                 ELSE IF askOrder.postOnly
                 THEN [crossingNodes |-> << [node |-> bidNode, makerNode |-> askNode] >>,
                       crossingSide  |-> "bid"]
                 ELSE LET newerNode == IF bidOrder.ts < askOrder.ts THEN askNode ELSE bidNode
                          olderNode == IF askOrder.ts < bidOrder.ts THEN bidNode ELSE askNode
                      IN  [crossingNodes |-> << [node |-> newerNode, makerNode |-> olderNode] >>,
                           crossingSide  |-> IF askOrder.ts < bidOrder.ts THEN "bid" ELSE "ask"]

\* What one findCrossingNodesToFill call leaves: the fills, the pairs it
\* compared with each verdict, the nodes not yet consumed from each stream
\* (the peeked one first), and why the loop ended.
CrossingRun(nodesToFill, steps, asks, bids, stop) ==
    [ nodesToFill |-> nodesToFill, steps |-> steps, asks |-> asks, bids |-> bids,
      stop |-> stop ]

\* A variant of the break that lets one more crossing through; the cap of
\* C8 does not hold of it.
ReachedCapOneLate(found, filled) ==
    found.crossingNodes # <<>> /\ Len(filled) = MaxFills + 1

\* The break of findCrossingNodesToFill: a crossing was pushed and
\* nodesToFill.length === 10.
ReachedCap(found, filled) == found.crossingNodes # <<>> /\ Len(filled) = MaxFills

\* The while loop of findCrossingNodesToFill.
RECURSIVE CrossingLoop(_, _, _, _, _, _)
CrossingLoop(asks, bids, nodesToFill, steps, oraclePrice, slot) ==
    IF asks = <<>> \/ bids = <<>>
    THEN CrossingRun(nodesToFill, steps, asks, bids, "exhausted")
    ELSE LET found  == FindCrossingOrders(Head(asks), Head(bids), oraclePrice, slot)
             filled == nodesToFill \o found.crossingNodes
             logged == Append(steps, [ askNode |-> Head(asks), bidNode |-> Head(bids),
                                       crossingNodes |-> found.crossingNodes,
                                       crossingSide |-> found.crossingSide ])
         IN  IF ReachedCap(found, filled)
             THEN CrossingRun(filled, logged, asks, bids, "cap")
             ELSE IF found.crossingSide = "bid"
             THEN CrossingLoop(asks, Tail(bids), filled, logged, oraclePrice, slot)
             ELSE IF found.crossingSide = "ask"
             THEN CrossingLoop(Tail(asks), bids, filled, logged, oraclePrice, slot)
             ELSE CrossingRun(filled, logged, asks, bids, "nocross")

\* findCrossingNodesToFill(marketIndex, vBid, vAsk, slot, oraclePriceData)
FindCrossingNodesToFill(lists, marketIndex, vBid, vAsk, slot, oraclePrice) ==
    CrossingLoop(GetAsks(lists, marketIndex, vAsk, slot, oraclePrice),
                 GetBids(lists, marketIndex, vBid, slot, oraclePrice),
                 <<>>, <<>>, oraclePrice, slot)

\* The market nodes of a list whose auction is complete, as fills with no maker.
RECURSIVE AuctionCompleteNodes(_, _)
AuctionCompleteNodes(nodes, slot) ==
    IF nodes = <<>> THEN <<>>
    ELSE (IF IsAuctionComplete(Head(nodes).order, slot)
          THEN << [node |-> Head(nodes)] >> ELSE <<>>)
         \o AuctionCompleteNodes(Tail(nodes), slot)

\* findMarketNodesToFill(marketIndex, slot)
FindMarketNodesToFill(lists, marketIndex, slot) ==
    AuctionCompleteNodes(GetMarketBids(lists, marketIndex), slot)
      \o AuctionCompleteNodes(GetMarketAsks(lists, marketIndex), slot)

\* findNodesToFill(marketIndex, vBid, vAsk, slot, oraclePriceData)
FindNodesToFill(lists, marketIndex, vBid, vAsk, slot, oraclePrice) ==
    FindCrossingNodesToFill(lists, marketIndex, vBid, vAsk, slot, oraclePrice).nodesToFill
      \o FindMarketNodesToFill(lists, marketIndex, slot)

-----------------------------------------------------------------------------
(* DLOB: best quotes and the trigger scan                                  *)

\* The value of a call that returned, and the mark of one that threw.
Returned(value) == [threw |-> FALSE, value |-> value]
Threw == [threw |-> TRUE]

\* getBestAsk: getAsks(...).next().value.getPrice(...); it throws when the
\* stream yields nothing (value is undefined).
GetBestAsk(lists, marketIndex, vAsk, slot, oraclePrice) ==
    LET asks == GetAsks(lists, marketIndex, vAsk, slot, oraclePrice)
    IN  IF asks = <<>> THEN Threw
        ELSE Returned(GetPrice(Head(asks), oraclePrice, slot))

\* getBestBid
GetBestBid(lists, marketIndex, vBid, slot, oraclePrice) ==
    LET bids == GetBids(lists, marketIndex, vBid, slot, oraclePrice)
    IN  IF bids = <<>> THEN Threw
        ELSE Returned(GetPrice(Head(bids), oraclePrice, slot))

\* A variant of the scan of trigger.above that ends at a node whose auction
\* is not complete instead of skipping it; C9 does not hold of it.
RECURSIVE ScanAboveEndingAtAuction(_, _, _)
ScanAboveEndingAtAuction(nodes, slot, oraclePrice) ==
    IF nodes = <<>> THEN <<>>
    ELSE IF oraclePrice > Head(nodes).order.triggerPrice
            /\ IsAuctionComplete(Head(nodes).order, slot)
    THEN << [node |-> Head(nodes)] >> \o ScanAboveEndingAtAuction(Tail(nodes), slot, oraclePrice)
    ELSE <<>>

\* The loop of findNodesToTrigger over trigger.above: stop at the first node
\* the oracle price is not above, skip a node whose auction is not complete.
RECURSIVE ScanAbove(_, _, _)
ScanAbove(nodes, slot, oraclePrice) ==
    IF nodes = <<>> THEN <<>>
    ELSE IF oraclePrice > Head(nodes).order.triggerPrice
    THEN (IF IsAuctionComplete(Head(nodes).order, slot)
          THEN << [node |-> Head(nodes)] >> ELSE <<>>)
         \o ScanAbove(Tail(nodes), slot, oraclePrice)
    ELSE <<>>

\* The loop of findNodesToTrigger over trigger.below.
RECURSIVE ScanBelow(_, _, _)
ScanBelow(nodes, slot, oraclePrice) ==
    IF nodes = <<>> THEN <<>>
    ELSE IF oraclePrice < Head(nodes).order.triggerPrice
    THEN (IF IsAuctionComplete(Head(nodes).order, slot)
          THEN << [node |-> Head(nodes)] >> ELSE <<>>)
         \o ScanBelow(Tail(nodes), slot, oraclePrice)
    ELSE <<>>

\* findNodesToTrigger(marketIndex, slot, oraclePrice)
FindNodesToTrigger(lists, marketIndex, slot, oraclePrice) ==
    ScanAbove(GetGenerator(lists[marketIndex].trigger.above), slot, oraclePrice)
      \o ScanBelow(GetGenerator(lists[marketIndex].trigger.below), slot, oraclePrice)

-----------------------------------------------------------------------------
(* DLOB: the readers as calls                                              *)

ReaderCall(op, args, result) == [ op |-> op, args |-> args, result |-> result ]

\* A read of a market the constructor was not given throws
\* (orderLists.get(...) is undefined).
ReadOf(marketIndex, value) ==
    IF marketIndex \in DOMAIN orderLists THEN Returned(value) ELSE Threw

CallGetAsks(marketIndex, vAsk, slot, oraclePrice) ==
    /\ UNCHANGED <<orderLists, openOrders>>
    /\ call' = ReaderCall("getAsks",
                   [marketIndex |-> marketIndex, vAsk |-> vAsk, slot |-> slot,
                    oraclePrice |-> oraclePrice],
                   ReadOf(marketIndex,
                          GetAsks(orderLists, marketIndex, vAsk, slot, oraclePrice)))

CallGetBids(marketIndex, vBid, slot, oraclePrice) ==
    /\ UNCHANGED <<orderLists, openOrders>>
    /\ call' = ReaderCall("getBids",
                   [marketIndex |-> marketIndex, vBid |-> vBid, slot |-> slot,
                    oraclePrice |-> oraclePrice],
                   ReadOf(marketIndex,
                          GetBids(orderLists, marketIndex, vBid, slot, oraclePrice)))

CallGetBestAsk(marketIndex, vAsk, slot, oraclePrice) ==
    /\ UNCHANGED <<orderLists, openOrders>>
    /\ call' = ReaderCall("getBestAsk",
                   [marketIndex |-> marketIndex, vAsk |-> vAsk, slot |-> slot,
                    oraclePrice |-> oraclePrice],
                   IF marketIndex \in DOMAIN orderLists
                   THEN GetBestAsk(orderLists, marketIndex, vAsk, slot, oraclePrice)
                   ELSE Threw)

CallGetBestBid(marketIndex, vBid, slot, oraclePrice) ==
    /\ UNCHANGED <<orderLists, openOrders>>
    /\ call' = ReaderCall("getBestBid",
                   [marketIndex |-> marketIndex, vBid |-> vBid, slot |-> slot,
                    oraclePrice |-> oraclePrice],
                   IF marketIndex \in DOMAIN orderLists
                   THEN GetBestBid(orderLists, marketIndex, vBid, slot, oraclePrice)
                   ELSE Threw)

CallFindCrossingNodesToFill(marketIndex, vBid, vAsk, slot, oraclePrice) ==
    /\ UNCHANGED <<orderLists, openOrders>>
    /\ call' = ReaderCall("findCrossingNodesToFill",
                   [marketIndex |-> marketIndex, vBid |-> vBid, vAsk |-> vAsk,
                    slot |-> slot, oraclePrice |-> oraclePrice],
                   ReadOf(marketIndex,
                          FindCrossingNodesToFill(orderLists, marketIndex, vBid, vAsk,
                                                  slot, oraclePrice)))

\* A variant of the findMarketNodesToFill call that takes the orders it
\* returns out of openOrders; C11 does not hold of it.
CallFindMarketNodesToFillConsuming(marketIndex, slot) ==
    LET result == ReadOf(marketIndex, FindMarketNodesToFill(orderLists, marketIndex, slot))
    IN  /\ UNCHANGED orderLists
        /\ openOrders' =
             IF result.threw THEN openOrders
             ELSE openOrders \ { GetOrderId(result.value[i].node.order,
                                            result.value[i].node.userAccount) :
                                   i \in 1..Len(result.value) }
        /\ call' = ReaderCall("findMarketNodesToFill",
                       [marketIndex |-> marketIndex, slot |-> slot], result)

CallFindMarketNodesToFill(marketIndex, slot) ==
    /\ UNCHANGED <<orderLists, openOrders>>
    /\ call' = ReaderCall("findMarketNodesToFill",
                   [marketIndex |-> marketIndex, slot |-> slot],
                   ReadOf(marketIndex,
                          FindMarketNodesToFill(orderLists, marketIndex, slot)))

CallFindNodesToFill(marketIndex, vBid, vAsk, slot, oraclePrice) ==
    /\ UNCHANGED <<orderLists, openOrders>>
    /\ call' = ReaderCall("findNodesToFill",
                   [marketIndex |-> marketIndex, vBid |-> vBid, vAsk |-> vAsk,
                    slot |-> slot, oraclePrice |-> oraclePrice],
                   ReadOf(marketIndex,
                          FindNodesToFill(orderLists, marketIndex, vBid, vAsk,
                                          slot, oraclePrice)))

CallFindNodesToTrigger(marketIndex, slot, oraclePrice) ==
    /\ UNCHANGED <<orderLists, openOrders>>
    /\ call' = ReaderCall("findNodesToTrigger",
                   [marketIndex |-> marketIndex, slot |-> slot,
                    oraclePrice |-> oraclePrice],
                   ReadOf(marketIndex,
                          FindNodesToTrigger(orderLists, marketIndex, slot, oraclePrice)))

-----------------------------------------------------------------------------
(* The book after construction                                             *)

Init ==
    /\ orderLists = [m \in MarketIndexes |-> EmptyMarketNodeLists]
    /\ openOrders = {}
    /\ call = [op |-> "constructor"]

-----------------------------------------------------------------------------
(* The callers' orders                                                     *)

Users == {"userA"}

\* Book scenarios.  An order id stands for one order account, whose type,
\* side and trigger condition never change: ids 1, 4, .. are limit bids
\* (open or init, in a market of the book or not), ids 2, 5, .. triggerLimit
\* bids and ids 3, 6, .. triggerMarket asks, as the caller sees them before
\* and after the order triggered.
BookOrders ==
    { MkOrder(id, m, "limit", st, "long", "above", FALSE, 1, 0, 1, 1, FALSE, 0, 1, 1) :
        id \in {i \in 1..MaxOrderId : i % 3 = 1}, m \in AllMarkets, st \in {"open", "init"} }
    \cup
    { MkOrder(id, 0, "triggerLimit", "open", "long", "above", tr, 1, 0, 1, 1, FALSE, 0, 1, 1) :
        id \in {i \in 1..MaxOrderId : i % 3 = 2}, tr \in BOOLEAN }
    \cup
    { MkOrder(id, 0, "triggerMarket", "open", "short", "below", tr, 1, 0, 1, 1, FALSE, 0, 1, 1) :
        id \in {i \in 1..MaxOrderId : i % 3 = 0}, tr \in BOOLEAN }

Next ==
    \/ \E order \in BookOrders, userAccount \in Users : Insert(order, userAccount)
    \/ \E order \in BookOrders, userAccount \in Users : Remove(order, userAccount)
    \/ \E order \in BookOrders, userAccount \in Users : Update(order, userAccount)
    \/ \E order \in BookOrders, userAccount \in Users : Trigger(order, userAccount)

Spec == Init /\ [][Next]_vars

-----------------------------------------------------------------------------
(* What the book holds                                                     *)

\* The places of the lists of the markets of the book.
AllPlaces ==
    UNION { UNION { { [market |-> m, type |-> t, subType |-> st] : st \in SubTypes(t) } :
                    t \in Types } : m \in MarketIndexes }

\* Every node of the book, as <<place of its list, index in the list>>.
NodeSlots ==
    UNION { { <<p, i>> : i \in 1..Len(ListAt(orderLists, p)) } : p \in AllPlaces }

NodeAt(slot) == ListAt(orderLists, slot[1])[slot[2]]

Range(seq) == { seq[i] : i \in 1..Len(seq) }

NodeId(node) == GetOrderId(node.order, node.userAccount)

\* The ids of the orders held as nodes.
HeldOrderIds == { NodeId(NodeAt(s)) : s \in NodeSlots }

BookIsEmpty == NodeSlots = {}

-----------------------------------------------------------------------------
(* C1: inserts and removes of open orders in markets of the book           *)

OpenBookOrders ==
    { o \in BookOrders : IsVariant(o.status, "open") /\ o.marketIndex \in MarketIndexes }

NextOpen ==
    \/ \E order \in OpenBookOrders, userAccount \in Users : Insert(order, userAccount)
    \/ \E order \in OpenBookOrders, userAccount \in Users : Remove(order, userAccount)

SpecOpen == Init /\ [][NextOpen]_vars

\* C1: after any sequence of insert and remove calls on open orders (in
\* markets of the book), an id is in openOrders if and only if its order is
\* held as a node, and there are as many ids as nodes.
C1_OpenOrdersAreTheHeldOrders ==
    /\ openOrders = HeldOrderIds
    /\ Cardinality(openOrders) = Cardinality(NodeSlots)

-----------------------------------------------------------------------------
(* C2, C3: the book under every mutator                                    *)

\* C2: every order held in the book is held as exactly one node, in exactly
\* one list.
C2_OneNodePerOrder ==
    \A id \in HeldOrderIds :
        Cardinality({ s \in NodeSlots : NodeId(NodeAt(s)) = id }) = 1

\* C3: insert of an order whose status is init changes neither the lists nor
\* openOrders.
C3_InsertOfInitIsNoOp ==
    [][ (call'.op = "insert" /\ IsVariant(call'.order.status, "init"))
          => (orderLists' = orderLists /\ openOrders' = openOrders) ]_vars

-----------------------------------------------------------------------------
(* C4: routing                                                             *)

OrderTypes == {"limit", "market", "triggerLimit", "triggerMarket"}

\* One order of every combination of the fields getListForOrder reads.
RouteOrders ==
    { MkOrder(1, 0, ty, "open", dir, cond, tr, 1, off, 1, 1, FALSE, 0, 1, 1) :
        ty \in OrderTypes, dir \in {"long", "short"}, cond \in {"above", "below"},
        tr \in BOOLEAN, off \in {-1, 0, 1} }

\* Each order is inserted into the empty book, then removed.
NextRoute ==
    \/ \E order \in RouteOrders, userAccount \in Users :
           BookIsEmpty /\ Insert(order, userAccount)
    \/ \E order \in RouteOrders, userAccount \in Users :
           /\ call.op = "insert" /\ call.order = order /\ call.userAccount = userAccount
           /\ Remove(order, userAccount)

SpecRoute == Init /\ [][NextRoute]_vars

\* The routing rule of the specification's section 4.3.
RoutingRule(order) ==
    IF order.orderType \in {Variant("triggerMarket"), Variant("triggerLimit")}
         /\ ~order.triggered
    THEN [ market  |-> order.marketIndex,
           type    |-> "trigger",
           subType |-> IF order.triggerCondition = Variant("above") THEN "above" ELSE "below" ]
    ELSE [ market  |-> order.marketIndex,
           type    |-> IF order.orderType \in {Variant("market"), Variant("triggerMarket")}
                       THEN "market"
                       ELSE IF order.oraclePriceOffset # 0 THEN "floatingLimit"
                       ELSE "limit",
           subType |-> IF order.direction = Variant("long") THEN "bid" ELSE "ask" ]

\* C4: getListForOrder returns the list the routing rule of section 4.3 gives,
\* and that list holds the node after insert.
C4_RoutesAsSection43 ==
    call.op = "insert" =>
        /\ GetListForOrder(call.order) = RoutingRule(call.order)
        /\ NodeListHas(ListAt(orderLists, RoutingRule(call.order)),
                       call.order, call.userAccount)

-----------------------------------------------------------------------------
(* C5, C6, C10: the merged streams                                         *)

\* vAMM quotes, slots and oracle prices of the reads.
Quotes == 1..3
Slots == 2..3
OraclePrices == {1}

\* Merge scenarios: open orders of market 0, one per order id.  Odd ids
\* are asks and even ids bids; by pairs of ids: a limit order at price 2, a
\* market order placed at slot 1 whose two-slot auction runs from 1 to 3, a
\* market order placed at slot 2 whose auction runs from 3 to 1, a
\* floating-limit order one above the oracle price, a limit order at price
\* 1, and so on.
MergeOrder(id) ==
    LET dir == IF id % 2 = 1 THEN "short" ELSE "long"
        k   == ((id - 1) \div 2) % 5
    IN  CASE k = 0 -> MkOrder(id, 0, "limit", "open", dir, "above", FALSE, 2, 0, 1, 1, FALSE, 0, 1, 1)
          [] k = 1 -> MkOrder(id, 0, "market", "open", dir, "above", FALSE, 1, 0, 1, 1, FALSE, 2, 1, 3)
          [] k = 2 -> MkOrder(id, 0, "market", "open", dir, "above", FALSE, 1, 0, 1, 2, FALSE, 2, 3, 1)
          [] k = 3 -> MkOrder(id, 0, "limit", "open", dir, "above", FALSE, 1, 1, 1, 1, FALSE, 0, 1, 1)
          [] k = 4 -> MkOrder(id, 0, "limit", "open", dir, "above", FALSE, 1, 0, 1, 1, FALSE, 0, 1, 1)

MergeOrders == { MergeOrder(id) : id \in 1..MaxMergeId }

NextMerge ==
    \/ \E order \in MergeOrders, userAccount \in Users : Insert(order, userAccount)
    \/ \E order \in MergeOrders, userAccount \in Users : Remove(order, userAccount)
    \/ \E vAsk \in Quotes, slot \in Slots, oraclePrice \in OraclePrices :
           CallGetAsks(0, vAsk, slot, oraclePrice)
    \/ \E vBid \in Quotes, slot \in Slots, oraclePrice \in OraclePrices :
           CallGetBids(0, vBid, slot, oraclePrice)
    \/ \E vAsk \in Quotes, slot \in Slots, oraclePrice \in OraclePrices :
           CallGetBestAsk(0, vAsk, slot, oraclePrice)
    \/ \E vBid \in Quotes, slot \in Slots, oraclePrice \in OraclePrices :
           CallGetBestBid(0, vBid, slot, oraclePrice)

SpecMerge == Init /\ [][NextMerge]_vars

\* The prices of the nodes a getAsks / getBids call yielded, at the call's
\* oracle price and slot.
YieldedPrice(i) == GetPrice(call.result.value[i], call.args.oraclePrice, call.args.slot)

\* C5: getAsks yields nodes of non-decreasing price and getBids nodes of
\* non-increasing price.
C5_MergeIsMonotone ==
    /\ call.op = "getAsks" =>
         \A i \in 1..(Len(call.result.value) - 1) : YieldedPrice(i) <= YieldedPrice(i + 1)
    /\ call.op = "getBids" =>
         \A i \in 1..(Len(call.result.value) - 1) : YieldedPrice(i) >= YieldedPrice(i + 1)

\* The place of a node's source among the merge sources.
SourceRank(node) ==
    CASE node.type = "limit"         -> 1
      [] node.type = "floatingLimit" -> 2
      [] node.type = "market"        -> 3
      [] node.type = "vamm"          -> 4

\* C6: nodes of equal price are yielded in the source order limit,
\* floatingLimit, market, vAMM.
C6_TiesInSourceOrder ==
    call.op \in {"getAsks", "getBids"} =>
        \A i, j \in 1..Len(call.result.value) :
            (i < j /\ YieldedPrice(i) = YieldedPrice(j))
                => SourceRank(call.result.value[i]) <= SourceRank(call.result.value[j])

-----------------------------------------------------------------------------
(* C7: matching                                                            *)

\* Matching scenarios: open limit orders of market 0, one per order id.  Odd
\* ids are asks and even ids bids; by pairs of ids the order is not postOnly
\* or postOnly, by fours it was placed at slot 1 or 2, and by eights the ask
\* is at price 1 and the bid at 2 (they cross) or the ask at 2 and the bid
\* at 1.
MatchOrder(id) ==
    LET k     == id - 1
        isAsk == k % 2 = 0
        po    == (k \div 2) % 2 = 1
        ts    == 1 + ((k \div 4) % 2)
        cross == (k \div 8) % 2 = 0
        px    == IF isAsk = cross THEN 1 ELSE 2
    IN  MkOrder(id, 0, "limit", "open", IF isAsk THEN "short" ELSE "long", "above",
                FALSE, px, 0, 1, ts, po, 0, 1, 1)

MatchOrders == { MatchOrder(id) : id \in 1..MaxMatchId }

NextMatch ==
    \/ \E order \in MatchOrders, userAccount \in Users : Insert(order, userAccount)
    \/ \E order \in MatchOrders, userAccount \in Users : Remove(order, userAccount)
    \/ \E vBid \in Quotes, vAsk \in Quotes :
           CallFindCrossingNodesToFill(0, vBid, vAsk, 2, 1)
    \/ CallFindMarketNodesToFill(0, 2)
    \/ \E vBid \in Quotes, vAsk \in Quotes :
           CallFindNodesToFill(0, vBid, vAsk, 2, 1)

SpecMatch == Init /\ [][NextMatch]_vars

\* C7: in every crossing findCrossingNodesToFill emits, the taker (node) is
\* not postOnly, and either the maker is postOnly, or it is not and
\* maker.ts <= taker.ts, the maker being the ask when the two ts are equal.
C7_MakerTakerRule ==
    call.op = "findCrossingNodesToFill" =>
        \A i \in 1..Len(call.result.value.nodesToFill) :
            LET taker == call.result.value.nodesToFill[i].node.order
                maker == call.result.value.nodesToFill[i].makerNode.order
            IN  /\ ~taker.postOnly
                /\ \/ maker.postOnly
                   \/ /\ maker.ts <= taker.ts
                      /\ maker.ts = taker.ts => IsVariant(maker.direction, "short")

-----------------------------------------------------------------------------
(* C8: the cap on the fills                                                *)

\* Fill-cap scenarios: asks 1..MaxCapAsks at price 1, placed one per slot
\* from slot 1 on, and two bids at price 2 placed at slot 0, one postOnly and
\* one not; every ask crosses both bids.
CapAsk(id) ==
    MkOrder(id, 0, "limit", "open", "short", "above", FALSE, 1, 0, 1, id, FALSE, 0, 1, 1)

CapBids ==
    { MkOrder(0, 0, "limit", "open", "long", "above", FALSE, 2, 0, 1, 0, TRUE, 0, 1, 1),
      MkOrder(-1, 0, "limit", "open", "long", "above", FALSE, 2, 0, 1, 0, FALSE, 0, 1, 1) }

\* The asks are inserted in the order they were placed; the bids are
\* inserted and removed at any time.
NextCap ==
    \/ \E id \in 1..MaxCapAsks, userAccount \in Users :
           /\ Len(orderLists[0].limit.ask) = id - 1
           /\ Insert(CapAsk(id), userAccount)
    \/ \E order \in CapBids, userAccount \in Users : Insert(order, userAccount)
    \/ \E order \in CapBids, userAccount \in Users : Remove(order, userAccount)
    \/ \E vBid \in {1, 2}, vAsk \in {1, 3} :
           CallFindCrossingNodesToFill(0, vBid, vAsk, 2, 1)

SpecCap == Init /\ [][NextCap]_vars

\* C8: findCrossingNodesToFill ends, after at most one comparison per node
\* of the two streams, and returns at most 10 fills.
C8_AtMostTenFills ==
    call.op = "findCrossingNodesToFill" =>
        /\ Len(call.result.value.nodesToFill) <= 10
        /\ Len(call.result.value.steps) <= Cardinality(NodeSlots) + 1

\* C8's case: the call stopped at the tenth fill with a resting ask that
\* crosses the bid still unconsumed.
C8_Witness ==
    /\ call.op = "findCrossingNodesToFill"
    /\ call.result.value.stop = "cap"
    /\ Len(call.result.value.nodesToFill) = 10
    /\ \E i \in 2..Len(call.result.value.asks) : ~IsVammNode(call.result.value.asks[i])

-----------------------------------------------------------------------------
(* C9: the trigger scan                                                    *)

\* Trigger scenarios: open triggerLimit orders of market 0 placed at slot 1,
\* one per order id.  Odd ids trigger above and even ids below; by pairs of
\* ids: trigger price 1 with a two-slot auction, trigger price 2 and no
\* auction, trigger price 3 and no auction, trigger price 2 with a two-slot
\* auction.
TriggerOrder(id) ==
    LET cond == IF id % 2 = 1 THEN "above" ELSE "below"
        k    == ((id - 1) \div 2) % 4
        tpx  == CASE k = 0 -> 1 [] k = 1 -> 2 [] k = 2 -> 3 [] k = 3 -> 2
        dur  == IF k \in {0, 3} THEN 2 ELSE 0
    IN  MkOrder(id, 0, "triggerLimit", "open", "long", cond, FALSE, 1, 0, tpx, 1, FALSE,
                dur, 1, 1)

TriggerOrders == { TriggerOrder(id) : id \in 1..MaxTriggerId }

\* The account of a trigger order after its auction was shortened to nothing
\* or lengthened to two slots; its trigger price is unchanged.
TriggerUpdates ==
    { [order EXCEPT !.auctionDuration = 2 - @] : order \in TriggerOrders }

NextTrigger ==
    \/ \E order \in TriggerOrders, userAccount \in Users : Insert(order, userAccount)
    \/ \E order \in TriggerOrders, userAccount \in Users : Remove(order, userAccount)
    \/ \E order \in TriggerOrders \cup TriggerUpdates, userAccount \in Users :
           Update(order, userAccount)
    \/ \E slot \in {1, 3}, oraclePrice \in 0..4 :
           CallFindNodesToTrigger(0, slot, oraclePrice)

SpecTrigger == Init /\ [][NextTrigger]_vars

\* The nodes of a list that satisfy a test, in the list's order, each as a
\* NodeToTrigger.
RECURSIVE NodesToTriggerOf(_, _)
NodesToTriggerOf(nodes, keep) ==
    IF nodes = <<>> THEN <<>>
    ELSE (IF Head(nodes) \in keep THEN << [node |-> Head(nodes)] >> ELSE <<>>)
         \o NodesToTriggerOf(Tail(nodes), keep)

-----------------------------------------------------------------------------
(* C10: the best quotes                                                    *)

\* C10: getBestAsk and getBestBid do not throw, and return the price of the
\* first node getAsks / getBids yields.
C10_BestQuotesNeverFail ==
    /\ call.op = "getBestAsk" =>
         /\ ~call.result.threw
         /\ call.result.value =
              GetPrice(Head(GetAsks(orderLists, call.args.marketIndex, call.args.vAsk,
                                    call.args.slot, call.args.oraclePrice)),
                       call.args.oraclePrice, call.args.slot)
    /\ call.op = "getBestBid" =>
         /\ ~call.result.threw
         /\ call.result.value =
              GetPrice(Head(GetBids(orderLists, call.args.marketIndex, call.args.vBid,
                                    call.args.slot, call.args.oraclePrice)),
                       call.args.oraclePrice, call.args.slot)

\* C10's case: the best ask of a book holding no ask is the vAMM's.
C10_Witness ==
    /\ call.op = "getBestAsk"
    /\ \A s \in NodeSlots : s[1].subType # "ask"
    /\ ~call.result.threw
    /\ call.result.value = call.args.vAsk

-----------------------------------------------------------------------------
(* C11: the book under every mutator and every reader                      *)

MutatorOps == {"insert", "remove", "update", "trigger"}

ReaderOps ==
    { "findNodesToFill", "findCrossingNodesToFill", "findMarketNodesToFill",
      "findNodesToTrigger", "getBestAsk", "getBestBid" }

\* The vAMM quotes and the oracle prices of the reads of the book scenarios:
\* the orders' prices are all 1, so the bids cross a vAMM ask of 1 and an
\* oracle price of 2 is above, one of 0 below, the trigger prices.
FrameQuotes == {1, 2}
FrameOraclePrices == {0, 2}

\* The mutators on the open orders of the book scenarios, and the six readers
\* on a market of the book and on one outside it.
NextFrame ==
    \/ \E order \in OpenBookOrders, userAccount \in Users : Insert(order, userAccount)
    \/ \E order \in OpenBookOrders, userAccount \in Users : Remove(order, userAccount)
    \/ \E order \in OpenBookOrders, userAccount \in Users : Update(order, userAccount)
    \/ \E order \in OpenBookOrders, userAccount \in Users : Trigger(order, userAccount)
    \/ \E m \in AllMarkets, vBid \in FrameQuotes, vAsk \in FrameQuotes :
           CallFindNodesToFill(m, vBid, vAsk, 2, 1)
    \/ \E m \in AllMarkets, vBid \in FrameQuotes, vAsk \in FrameQuotes :
           CallFindCrossingNodesToFill(m, vBid, vAsk, 2, 1)
    \/ \E m \in AllMarkets : CallFindMarketNodesToFill(m, 2)
    \/ \E m \in AllMarkets, oraclePrice \in FrameOraclePrices :
           CallFindNodesToTrigger(m, 2, oraclePrice)
    \/ \E m \in AllMarkets, vAsk \in FrameQuotes : CallGetBestAsk(m, vAsk, 2, 1)
    \/ \E m \in AllMarkets, vBid \in FrameQuotes : CallGetBestBid(m, vBid, 2, 1)

SpecFrame == Init /\ [][NextFrame]_vars

\* C11: a reader leaves openOrders and every list as they were; the book
\* changes only in a call of insert, update, remove or trigger; and the
\* markets of orderLists stay those of the constructor.
C11_ReadersLeaveTheBook ==
    [][ /\ DOMAIN orderLists' = DOMAIN orderLists
        /\ call'.op \in ReaderOps => (orderLists' = orderLists /\ openOrders' = openOrders)
        /\ (orderLists' # orderLists \/ openOrders' # openOrders)
             => call'.op \in MutatorOps ]_vars

\* C11's case: findNodesToFill returned fills from a book that holds nodes
\* and open orders.
C11_Witness ==
    /\ call.op = "findNodesToFill"
    /\ ~call.result.threw
    /\ call.result.value # <<>>
    /\ openOrders # {}
    /\ DOMAIN orderLists = MarketIndexes

-----------------------------------------------------------------------------
(* C12: the status of the orders the readers return                        *)

\* The book scenarios' orders of the markets of the book, open or init.
StatusOrders == { o \in BookOrders : o.marketIndex \in MarketIndexes }

\* The vAMM bids of the reads: below the orders' price of 1, and equal to it.
StatusBids == {0, 1}

NextStatus ==
    \/ \E order \in StatusOrders, userAccount \in Users : Insert(order, userAccount)
    \/ \E order \in StatusOrders, userAccount \in Users : Remove(order, userAccount)
    \/ \E order \in StatusOrders, userAccount \in Users : Update(order, userAccount)
    \/ \E order \in StatusOrders, userAccount \in Users : Trigger(order, userAccount)
    \/ \E vBid \in StatusBids, vAsk \in FrameQuotes : CallFindNodesToFill(0, vBid, vAsk, 2, 1)
    \/ \E oraclePrice \in FrameOraclePrices : CallFindNodesToTrigger(0, 2, oraclePrice)

SpecStatus == Init /\ [][NextStatus]_vars

\* The nodes of the entries a reader returned, as node or as makerNode.
ReturnedNodes(entries) ==
    { entries[i].node : i \in 1..Len(entries) }
      \cup { entries[i].makerNode : i \in { j \in 1..Len(entries) : "makerNode" \in DOMAIN entries[j] } }

\* C12: every node findNodesToFill or findNodesToTrigger returns, as node or
\* makerNode, wraps an order whose status is open and whose id is in
\* openOrders.
C12_OnlyOpenOrdersAreReturned ==
    (call.op \in {"findNodesToFill", "findNodesToTrigger"} /\ ~call.result.threw) =>
        \A node \in ReturnedNodes(call.result.value) :
            /\ IsVariant(node.order.status, "open")
            /\ NodeId(node) \in openOrders

-----------------------------------------------------------------------------
(* C13: remove of an order the book does not hold                          *)

\* C13: a remove of an order that is held in no list raises no error and
\* leaves openOrders and every list as they were; and a remove repeated
\* right after itself changes nothing.
C13_RemoveOfAbsentIsNoOp ==
    [][ /\ (call'.op = "remove"
              /\ GetOrderId(call'.order, call'.userAccount) \notin HeldOrderIds)
             => (~call'.threw /\ orderLists' = orderLists /\ openOrders' = openOrders)
        /\ (call.op = "remove" /\ call' = call)
             => (orderLists' = orderLists /\ openOrders' = openOrders) ]_vars

-----------------------------------------------------------------------------
(* C14, C15, C17: the verdicts of one findCrossingNodesToFill call         *)

\* The pairs the last findCrossingNodesToFill call compared, in order.
CrossingSteps ==
    IF call.op = "findCrossingNodesToFill" /\ ~call.result.threw
    THEN call.result.value.steps ELSE <<>>

\* The prices of a compared pair cross at the call's (oracle, slot).
StepCrosses(step) ==
    GetPrice(step.bidNode, call.args.oraclePrice, call.args.slot)
      >= GetPrice(step.askNode, call.args.oraclePrice, call.args.slot)

\* C14: when the compared bid and ask cross and both are postOnly user
\* orders, no fill is emitted and the stream advanced is that of the newer
\* order, so the older order is compared again in the next comparison.
C14_TwoMakersAdvanceTheNewer ==
    \A i \in 1..Len(CrossingSteps) :
        LET step == CrossingSteps[i]
        IN  (/\ ~IsVammNode(step.askNode) /\ ~IsVammNode(step.bidNode)
             /\ StepCrosses(step)
             /\ step.askNode.order.postOnly /\ step.bidNode.order.postOnly)
            => /\ step.crossingNodes = <<>>
               /\ step.bidNode.order.ts > step.askNode.order.ts
                    => /\ step.crossingSide = "bid"
                       /\ i < Len(CrossingSteps) => CrossingSteps[i + 1].askNode = step.askNode
               /\ step.askNode.order.ts > step.bidNode.order.ts
                    => /\ step.crossingSide = "ask"
                       /\ i < Len(CrossingSteps) => CrossingSteps[i + 1].bidNode = step.bidNode

\* C15: after every emitted crossing the stream advanced is the side of the
\* taker (the emitted node): bid for a long order, ask for a short one.
C15_TheTakerSideAdvances ==
    \A i \in 1..Len(CrossingSteps) :
        LET step == CrossingSteps[i]
        IN  step.crossingNodes # <<>> =>
                step.crossingSide =
                    IF IsVariant(step.crossingNodes[1].node.order.direction, "long")
                    THEN "bid" ELSE "ask"

\* C17: every emitted entry pairs the compared user bid with the compared
\* user ask, their prices cross, neither is a vAMM node, and node and
\* makerNode are not the same node.
C17_CrossingsPairABidWithAnAsk ==
    \A i \in 1..Len(CrossingSteps) :
        LET step == CrossingSteps[i]
        IN  step.crossingNodes # <<>> =>
                LET entry == step.crossingNodes[1]
                IN  /\ ~IsVammNode(entry.node) /\ ~IsVammNode(entry.makerNode)
                    /\ entry.node # entry.makerNode
                    /\ {entry.node, entry.makerNode} = {step.askNode, step.bidNode}
                    /\ StepCrosses(step)

-----------------------------------------------------------------------------
(* C16, C20: matching over limit, floating-limit and market orders         *)

\* The merge scenarios' orders under insert, remove, findCrossingNodesToFill
\* and findNodesToFill.
NextCross ==
    \/ \E order \in MergeOrders, userAccount \in Users : Insert(order, userAccount)
    \/ \E order \in MergeOrders, userAccount \in Users : Remove(order, userAccount)
    \/ \E vBid \in Quotes, vAsk \in Quotes, slot \in Slots, oraclePrice \in OraclePrices :
           CallFindCrossingNodesToFill(0, vBid, vAsk, slot, oraclePrice)
    \/ \E vBid \in Quotes, vAsk \in Quotes, slot \in Slots, oraclePrice \in OraclePrices :
           CallFindNodesToFill(0, vBid, vAsk, slot, oraclePrice)

SpecCross == Init /\ [][NextCross]_vars

\* C16: when findCrossingNodesToFill stops on a pair that does not cross,
\* with fewer than 10 fills, no user bid left in the bid stream has a price
\* greater than or equal to that of a user ask left in the ask stream.
C16_NoCrossingPairIsLeft ==
    (/\ call.op = "findCrossingNodesToFill" /\ ~call.result.threw
     /\ call.result.value.stop = "nocross"
     /\ Len(call.result.value.nodesToFill) < 10)
    => \A bid \in Range(call.result.value.bids), ask \in Range(call.result.value.asks) :
           (~IsVammNode(bid) /\ ~IsVammNode(ask))
             => GetPrice(bid, call.args.oraclePrice, call.args.slot)
                  < GetPrice(ask, call.args.oraclePrice, call.args.slot)

\* C20: in the result of one findNodesToFill call no order is the taker
\* (node) of two entries.
C20_NoOrderIsTakerTwice ==
    (call.op = "findNodesToFill" /\ ~call.result.threw) =>
        \A i, j \in 1..Len(call.result.value) :
            NodeId(call.result.value[i].node) = NodeId(call.result.value[j].node) => i = j

-----------------------------------------------------------------------------
(* C18: trigger                                                            *)

\* The positions at which the lists hold a node of the order id, as
\* <<place of the list, index in the list>>.
SlotsOfOrder(lists, id) ==
    UNION { { <<p, i>> : i \in { j \in 1..Len(ListAt(lists, p)) :
                                   NodeId(ListAt(lists, p)[j]) = id } } :
            p \in AllPlaces }

InTriggerList(lists, id) ==
    \E s \in SlotsOfOrder(lists, id) : s[1].type = "trigger"

\* C18: a trigger call for an order that sits in a trigger list, passed with
\* triggered set, does not fail; afterwards the order is in no trigger list
\* and is held as one node, in the list getListForOrder selects; openOrders
\* is as it was.
C18_TriggerMovesTheOrder ==
    [][ LET id == GetOrderId(call'.order, call'.userAccount)
        IN  (/\ call'.op = "trigger"
             /\ call'.order.triggered
             /\ InTriggerList(orderLists, id))
            => /\ ~call'.threw
               /\ ~InTriggerList(orderLists', id)
               /\ \E s \in SlotsOfOrder(orderLists', id) :
                      /\ SlotsOfOrder(orderLists', id) = {s}
                      /\ s[1] = GetListForOrder(call'.order)
               /\ openOrders' = openOrders ]_vars

\* C18's case: after a trigger call the open order triggered is held once,
\* in the list getListForOrder selects, and no trigger list holds it.
C18_Witness ==
    /\ call.op = "trigger" /\ ~call.threw
    /\ call.order.triggered
    /\ GetOrderId(call.order, call.userAccount) \in openOrders
    /\ ~InTriggerList(orderLists, GetOrderId(call.order, call.userAccount))
    /\ \E s \in SlotsOfOrder(orderLists, GetOrderId(call.order, call.userAccount)) :
           s[1] = GetListForOrder(call.order)
    /\ \E s \in NodeSlots : s[1].type = "trigger"

-----------------------------------------------------------------------------
(* C19: insert and remove for a market the book was not constructed with   *)

\* C19: an insert or a remove of an order whose marketIndex is not a market
\* of orderLists throws, and leaves every list and openOrders as they were.
C19_UnknownMarketLeavesTheBook ==
    [][ (/\ call'.op \in {"insert", "remove"}
         /\ call'.order.marketIndex \notin DOMAIN orderLists)
        => (call'.threw /\ orderLists' = orderLists /\ openOrders' = openOrders) ]_vars

====
